---- MODULE Spec2Model ----
(***************************************************************************)
(* Region growing by seeded flood fill.                                    *)
(*                                                                         *)
(*   src/src/reg_grow.cpp      exhaustive pass, fixed threshold, the stack *)
(*                             is a pair of growable int arrays            *)
(*   src/src/reg_grow_dir.cpp  seeded pass, adaptive threshold, small      *)
(*                             regions reclaimed, the stack is a vector    *)
(*                                                                         *)
(* Both programs keep the same fields (im, h, w, passedBy, currentRegion,  *)
(* iterations, thresh); the variable mode says which program runs.         *)
(* Real numbers are kept exact: a square root is carried as its radicand   *)
(* and a mean as a fraction <<numerator, denominator>>.                    *)
(***************************************************************************)
EXTENDS Integers, Sequences, FiniteSets, TLC

VARIABLES
  mode,           \* "fixed" (reg_grow.cpp), "adaptive" (reg_grow_dir.cpp), "array" / "vector" (stack alone)
  h, w,           \* rows and columns of the image
  im,             \* pixel colours, row-major: im[x * w + y] = <<c0, c1, c2>>
  thresh,         \* configured threshold
  passedBy,       \* label map, row-major, 0 = unassigned
  currentRegion,  \* region counter
  iterations,     \* pop counter
  stack,          \* reg_grow.cpp: struct Stack [x, y, size, capacity]
  item,           \* reg_grow_dir.cpp: Stack::item
  pc,             \* position in the program
  x0, y0,         \* seed coordinates of ApplyRegionGrow
  x, y,           \* last popped coordinates
  seeds, idx,     \* reg_grow_dir.cpp: seed list and position of the range-for
  regionNum,      \* BFS local
  var,            \* BFS local, a fraction
  elems,          \* reg_grow_dir.cpp BFS local: brightness of the pixels admitted by this call
  varReads,       \* values of var read by the comparisons distance < var of the last step
  touched,        \* coordinates at which the last step read or wrote im / passedBy
  hist,           \* history: pairs pushed and not yet popped, oldest first
  expect          \* history: top of hist when pop was last called

vars == <<mode, h, w, im, thresh, passedBy, currentRegion, iterations, stack, item,
          pc, x0, y0, x, y, seeds, idx, regionNum, var, elems, varReads, touched,
          hist, expect>>

----------------------------------------------------------------------------
(* Bounds of the model and program constants                               *)

MaxCells == 4          \* small images: every shape h x w with h * w <= MaxCells
BandH == 8             \* large two-colour images: BandH x BandW
BandW == 9
MaxCap == 2            \* stack alone: initial capacities 1..MaxCap
MaxDepth == 4          \* stack alone: at most MaxDepth pending pairs
LateSlack == 2         \* long runs: iterations starts at most LateSlack below the cap

StackCapacity == 1000  \* initStack(&rg->stack, 1000)
MinRegion == 64        \* count < 8 * 8
max_iteration == 200000

----------------------------------------------------------------------------
(* Arithmetic                                                              *)

RECURSIVE GCD(_, _)
GCD(a, b) == IF b = 0 THEN a ELSE GCD(b, a % b)

Abs(n) == IF n < 0 THEN -n ELSE n

\* the fraction n / d, d > 0, in lowest terms
Frac(n, d) == LET g == GCD(Abs(n), d) IN <<n \div g, d \div g>>

FracLess(a, b) == a[1] * b[2] < b[1] * a[2]

FracMax(a, b) == IF FracLess(a, b) THEN b ELSE a

\* sqrt(r) < v for a radicand r >= 0 and a fraction v
SqrtLess(r, v) == v[1] > 0 /\ r * v[2] * v[2] < v[1] * v[1]

----------------------------------------------------------------------------
(* Image access.  Reads outside the array do not happen in the programs    *)
(* (see BoundaryExclusion); At is total so that this can be checked.       *)

At(f, i, dflt) == IF i \in DOMAIN f THEN f[i] ELSE dflt

Pix(xx, yy) == At(im, xx * w + yy, <<0, 0, 0>>)

Lab(pb, xx, yy) == At(pb, xx * w + yy, 0)

SetLab(pb, xx, yy, v) ==
  IF xx * w + yy \in DOMAIN pb THEN [pb EXCEPT ![xx * w + yy] = v] ELSE pb

Cells == 0 .. (h * w - 1)

InGrid(c) == c[1] >= 0 /\ c[1] < h /\ c[2] >= 0 /\ c[2] < w

\* the four offsets along the axes only
OffsetsAxes == << <<-1, 0>>, <<0, -1>>, <<0, 1>>, <<1, 0>> >>

\* the offsets with the loop over j outside the loop over i
OffsetsColumnMajor == << <<-1, -1>>, <<0, -1>>, <<1, -1>>, <<-1, 0>>,
                         <<1, 0>>, <<-1, 1>>, <<0, 1>>, <<1, 1>> >>

\* the eight offsets in the order of the two nested loops i, j = -1..1
Offsets == << <<-1, -1>>, <<-1, 0>>, <<-1, 1>>, <<0, -1>>,
              <<0, 1>>, <<1, -1>>, <<1, 0>>, <<1, 1>> >>

----------------------------------------------------------------------------
(* reg_grow.cpp: the array-backed stack.  x and y hold the slots written   *)
(* so far; slots beyond them are uninitialised and are never read, because *)
(* pop reads below size only.                                              *)

initStack(capacity) == [x |-> <<>>, y |-> <<>>, size |-> 0, capacity |-> capacity]

Store(a, i, v) == IF i + 1 <= Len(a) THEN [a EXCEPT ![i + 1] = v] ELSE Append(a, v)

\* a push whose reallocation loses the old contents (malloc in place of realloc)
pushLosing(s, x_coord, y_coord) ==
  LET full == s.size = s.capacity
      zero == [i \in 1 .. s.size |-> 0]
      xs == IF full THEN zero ELSE s.x
      ys == IF full THEN zero ELSE s.y
  IN [x |-> Store(xs, s.size, x_coord), y |-> Store(ys, s.size, y_coord),
      size |-> s.size + 1,
      capacity |-> IF full THEN s.capacity * 2 ELSE s.capacity]

push(s, x_coord, y_coord) ==
  [x |-> Store(s.x, s.size, x_coord), y |-> Store(s.y, s.size, y_coord),
   size |-> s.size + 1,
   capacity |-> IF s.size = s.capacity THEN s.capacity * 2 ELSE s.capacity]

\* pop: the stack after the call and the values left in *x_coord, *y_coord
pop(s, x_coord, y_coord) ==
  IF s.size > 0
    THEN [stack |-> [s EXCEPT !.size = s.size - 1],
          x |-> s.x[s.size], y |-> s.y[s.size]]
    ELSE [stack |-> s, x |-> x_coord, y |-> y_coord]

isEmpty(s) == s.size = 0

\* the pairs held by the array stack, bottom first
Live(s) == [i \in 1 .. s.size |-> <<s.x[i], s.y[i]>>]

----------------------------------------------------------------------------
(* reg_grow_dir.cpp: class Stack over std::vector                          *)

Stack_push(it, value) == Append(it, value)

\* pop of a non-empty vector with pop_back() left out
Stack_popKeep(it) == [item |-> it, val |-> it[Len(it)]]

\* pop of a non-empty vector: back(), then pop_back()
Stack_pop(it) == [item |-> SubSeq(it, 1, Len(it) - 1), val |-> it[Len(it)]]

\* isEmpty that takes a vector of one pair for empty
Stack_isEmptyOne(it) == Len(it) <= 1

Stack_isEmpty(it) == it = <<>>

----------------------------------------------------------------------------
(* reg_grow.cpp                                                            *)

boundaries(xx, yy) == xx >= 0 /\ xx < h /\ yy >= 0 /\ yy < w

\* the radicand of distance(a, b) = sqrt(sum of (a[i] - b[i])^2)
distance(a, b) ==
  (a[1] - b[1]) * (a[1] - b[1]) + (a[2] - b[2]) * (a[2] - b[2])
    + (a[3] - b[3]) * (a[3] - b[3])

\* distance(...) <= var in place of distance(...) < var
SimilarOrEqual(a, b, v) ==
  v[1] >= 0 /\ distance(a, b) * v[2] * v[2] <= v[1] * v[1]

\* distance(im(x, y), im(nx, ny)) < var
Similar(a, b, v) == SqrtLess(distance(a, b), v)

\* the body of the two nested loops of BFS for the offsets n..8, on the
\* state st = [passedBy, stack, touched] with (px, py) the popped pixel
RECURSIVE BFSNeighbours(_, _, _, _, _, _)
BFSNeighbours(n, st, px, py, rn, v) ==
  IF n > Len(Offsets) THEN st
  ELSE
    LET nx == px + Offsets[n][1]
        ny == py + Offsets[n][2]
    IN IF ~ boundaries(nx, ny)
         THEN BFSNeighbours(n + 1, st, px, py, rn, v)
       ELSE IF Lab(st.passedBy, nx, ny) # 0
         THEN BFSNeighbours(n + 1, [st EXCEPT !.touched = @ \cup {<<nx, ny>>}],
                            px, py, rn, v)
       ELSE IF Similar(Pix(px, py), Pix(nx, ny), v)
         THEN BFSNeighbours(n + 1,
                [passedBy |-> SetLab(st.passedBy, nx, ny, rn),
                 stack |-> push(st.stack, nx, ny),
                 touched |-> st.touched \cup {<<nx, ny>>, <<px, py>>}],
                px, py, rn, v)
       ELSE BFSNeighbours(n + 1,
                [st EXCEPT !.touched = @ \cup {<<nx, ny>>, <<px, py>>}],
                px, py, rn, v)

\* lines 271-272 with the assignment to passedBy left out
StartRegionNoLabel(pb, cr, sx, sy) == [currentRegion |-> cr + 1, passedBy |-> pb]

\* lines 271-272 with the counter advanced twice
StartRegionSkip(pb, cr, sx, sy) ==
  [currentRegion |-> cr + 2, passedBy |-> SetLab(pb, sx, sy, cr + 2)]

\* rg->currentRegion++; rg->passedBy[x0 * rg->w + y0] = rg->currentRegion;
StartRegion(pb, cr, sx, sy) ==
  [currentRegion |-> cr + 1, passedBy |-> SetLab(pb, sx, sy, cr + 1)]

dirVars == <<item, seeds, idx, elems, varReads>>
histVars == <<hist, expect>>
imageVars == <<mode, h, w, im, thresh>>

\* ApplyRegionGrow, one iteration of the loops over x0, y0 (lines 265-277),
\* up to the call of BFS and the two initialisations that open it
ApplyRegionGrow_cell ==
  /\ mode = "fixed" /\ pc = "loop" /\ x0 < h
  /\ touched' = {<<x0, y0>>}
  /\ IF Lab(passedBy, x0, y0) = 0
       THEN /\ currentRegion' = StartRegion(passedBy, currentRegion, x0, y0).currentRegion
            /\ passedBy' = StartRegion(passedBy, currentRegion, x0, y0).passedBy
            /\ stack' = push(stack, x0, y0)
            /\ var' = <<thresh, 1>>
            /\ regionNum' = Lab(passedBy', x0, y0)
            /\ pc' = "bfs"
            /\ UNCHANGED <<x0, y0>>
       ELSE /\ IF y0 + 1 < w THEN x0' = x0 /\ y0' = y0 + 1
                             ELSE x0' = x0 + 1 /\ y0' = 0
            /\ UNCHANGED <<currentRegion, passedBy, stack, var, regionNum, pc>>
  /\ UNCHANGED <<imageVars, iterations, x, y, dirVars, histVars>>

\* BFS, one iteration of while (!isEmpty(&rg->stack))
BFS_pop ==
  /\ mode = "fixed" /\ pc = "bfs" /\ ~ isEmpty(stack)
  /\ LET p == pop(stack, x, y)
         r == BFSNeighbours(1, [passedBy |-> passedBy, stack |-> p.stack, touched |-> {}],
                            p.x, p.y, regionNum, var)
     IN /\ x' = p.x /\ y' = p.y
        /\ iterations' = iterations + 1
        /\ passedBy' = r.passedBy
        /\ stack' = r.stack
        /\ touched' = r.touched
  /\ UNCHANGED <<imageVars, currentRegion, pc, x0, y0, regionNum, var, dirVars, histVars>>

\* BFS returns on the empty stack; the loop over y0, x0 advances
BFS_return ==
  /\ mode = "fixed" /\ pc = "bfs" /\ isEmpty(stack)
  /\ pc' = "loop"
  /\ IF y0 + 1 < w THEN x0' = x0 /\ y0' = y0 + 1
                   ELSE x0' = x0 + 1 /\ y0' = 0
  /\ touched' = {}
  /\ UNCHANGED <<imageVars, passedBy, currentRegion, iterations, stack, x, y, regionNum,
                 var, dirVars, histVars>>

\* the labeling pass is over (the colouring of SEGS that follows reads passedBy only)
ApplyRegionGrow_end ==
  /\ mode = "fixed" /\ pc = "loop" /\ x0 >= h
  /\ pc' = "done"
  /\ touched' = {}
  /\ UNCHANGED <<imageVars, passedBy, currentRegion, iterations, stack, x0, y0, x, y,
                 regionNum, var, dirVars, histVars>>

NextFix == ApplyRegionGrow_cell \/ BFS_pop \/ BFS_return \/ ApplyRegionGrow_end

----------------------------------------------------------------------------
(* Inputs of reg_grow.cpp                                                  *)

C30 == <<30, 0, 0>>
C36 == <<36, 0, 0>>
C42 == <<42, 0, 0>>
Black == <<0, 0, 0>>
C200 == <<200, 0, 0>>

FixPalette == {C30, C36, C42}
FixThresholds == {0, 6, 7}

Shapes == {s \in (1 .. MaxCells) \X (1 .. MaxCells) : s[1] * s[2] <= MaxCells}

\* the 4 x 4 scenarios: one colour, or two halves at distance 200
ScenarioImages ==
  { [c \in 0 .. 15 |-> Black],
    [c \in 0 .. 15 |-> IF c < 8 THEN Black ELSE C200],
    [c \in 0 .. 15 |-> IF c % 4 < 2 THEN Black ELSE C200] }

\* the state after initRegionGrow, at the entry of ApplyRegionGrow
InitFixCommon ==
  /\ mode = "fixed"
  /\ passedBy = [c \in 0 .. (h * w - 1) |-> 0]
  /\ currentRegion = 0 /\ iterations = 0
  /\ stack = initStack(StackCapacity)
  /\ item = <<>> /\ seeds = <<>> /\ idx = 0 /\ elems = <<>> /\ varReads = <<>>
  /\ pc = "loop" /\ x0 = 0 /\ y0 = 0 /\ x = 0 /\ y = 0
  /\ regionNum = 0 /\ var = <<thresh, 1>>
  /\ touched = {} /\ hist = <<>> /\ expect = <<>>

InitFix ==
  /\ \/ /\ \E s \in Shapes : h = s[1] /\ w = s[2]
        /\ im \in [0 .. (h * w - 1) -> FixPalette]
        /\ thresh \in FixThresholds
     \/ /\ h = 4 /\ w = 4
        /\ im \in ScenarioImages
        /\ thresh = 10
  /\ InitFixCommon

SpecFix == InitFix /\ [][NextFix]_vars

\* one thread runs the program to its end: a step that can be taken is taken
SpecFixFair == SpecFix /\ WF_vars(NextFix)

----------------------------------------------------------------------------
(* reg_grow_dir.cpp                                                        *)

\* the test of boundaries without its lower bounds
RegionGrow_boundariesHigh(xx, yy) == xx < h /\ yy < w

\* the test of boundaries with the last row and column left out
RegionGrow_boundariesShort(xx, yy) == xx >= 0 /\ xx < h - 1 /\ yy >= 0 /\ yy < w - 1

RegionGrow_boundaries(xx, yy) == xx >= 0 /\ xx < h /\ yy >= 0 /\ yy < w

\* getNeighbour: the in-bounds neighbours of (px, py) in the order of the loops
RECURSIVE NeighboursFrom(_, _, _)
NeighboursFrom(n, px, py) ==
  IF n > Len(Offsets) THEN <<>>
  ELSE LET c == <<px + Offsets[n][1], py + Offsets[n][2]>>
       IN IF RegionGrow_boundaries(c[1], c[2])
            THEN <<c>> \o NeighboursFrom(n + 1, px, py)
            ELSE NeighboursFrom(n + 1, px, py)

getNeighbour(px, py) == NeighboursFrom(1, px, py)

\* the radicand of cv::norm(im(x0, y0) - im(x, y))
RegionGrow_distance(a, b) ==
  (a[1] - b[1]) * (a[1] - b[1]) + (a[2] - b[2]) * (a[2] - b[2])
    + (a[3] - b[3]) * (a[3] - b[3])

\* cv::mean(im.at<cv::Vec3i>(x, y))[0]: the mean of the three channels
Brightness(c) == Frac(c[1] + c[2] + c[3], 3)

FracAdd(a, b) == Frac(a[1] * b[2] + b[1] * a[2], a[2] * b[2])

RECURSIVE FracSum(_)
FracSum(s) == IF s = <<>> THEN <<0, 1>> ELSE FracAdd(Head(s), FracSum(Tail(s)))

\* the sum of the vector in place of its mean
MeanOfSum(s) == FracSum(s)

\* cv::mean(elems)[0] of a non-empty vector
MeanOf(s) == LET t == FracSum(s) IN Frac(t[1], t[2] * Len(s))

CountNonZero(pb) == Cardinality({c \in DOMAIN pb : pb[c] > 0})

CountOfLabel(pb, l) == Cardinality({c \in DOMAIN pb : pb[c] = l})

\* PassedAll without the test of the iterations
PassedAllLabeled(iter, pb) == CountNonZero(pb) = h * w

PassedAll(iter, pb) == iter > max_iteration \/ CountNonZero(pb) = h * w

\* count < 8 in place of count < 8 * 8
TooSmall8(count) == count < 8

\* count < 8 * 8
TooSmall(count) == count < MinRegion

\* line 241 left out: var keeps the mean
NoFloor(v, t) == v

\* var = std::max(var, thresh)
Floor(v, t) == FracMax(v, <<t, 1>>)

\* the range-for of BFS over neighbours nb from position n, on the state
\* st = [passedBy, item, elems, var, reads, touched]; (px, py) is the popped pixel
RECURSIVE BFSLoop(_, _, _, _, _, _, _)
BFSLoop(n, st, nb, px, py, rn, iter) ==
  IF n > Len(nb) THEN st
  ELSE
    LET c == nb[n]
    IN IF Lab(st.passedBy, c[1], c[2]) # 0
         THEN BFSLoop(n + 1,
                [st EXCEPT !.touched = @ \cup {c}, !.var = Floor(st.var, thresh)],
                nb, px, py, rn, iter)
       ELSE
         LET seen == [st EXCEPT !.touched = @ \cup {c, <<px, py>>},
                                !.reads = Append(@, st.var)]
         IN IF SqrtLess(RegionGrow_distance(Pix(px, py), Pix(c[1], c[2])), st.var)
              THEN IF PassedAll(iter, st.passedBy)
                     THEN seen
                     ELSE LET es == Append(st.elems, Brightness(Pix(c[1], c[2])))
                          IN BFSLoop(n + 1,
                               [seen EXCEPT !.passedBy = SetLab(st.passedBy, c[1], c[2], rn),
                                            !.item = Stack_push(st.item, c),
                                            !.elems = es,
                                            !.var = Floor(MeanOf(es), thresh)],
                               nb, px, py, rn, iter)
              ELSE BFSLoop(n + 1, [seen EXCEPT !.var = Floor(st.var, thresh)],
                           nb, px, py, rn, iter)

\* BFS(x, y) for the popped pixel (px, py) with the stack it left behind
BFS(px, py, it) ==
  BFSLoop(1,
          [passedBy |-> passedBy, item |-> it,
           elems |-> <<Brightness(Pix(px, py))>>,
           var |-> <<thresh, 1>>, reads |-> <<>>, touched |-> {<<px, py>>}],
          getNeighbour(px, py), px, py, Lab(passedBy, px, py), iterations)

\* a reset that forgets to give the id back
reset_region_keep(pb, cr, sx, sy) ==
  [passedBy |-> [c \in DOMAIN pb |-> IF pb[c] = cr THEN 0 ELSE pb[c]],
   currentRegion |-> cr,
   ret |-> <<sx - 1, sy - 1>>]

\* a reset that clears every region up to the current one
reset_region_all(pb, cr, sx, sy) ==
  [passedBy |-> [c \in DOMAIN pb |-> IF pb[c] <= cr THEN 0 ELSE pb[c]],
   currentRegion |-> cr - 1,
   ret |-> <<sx - 1, sy - 1>>]

reset_region(pb, cr, sx, sy) ==
  [passedBy |-> [c \in DOMAIN pb |-> IF pb[c] = cr THEN 0 ELSE pb[c]],
   currentRegion |-> cr - 1,
   ret |-> <<sx - 1, sy - 1>>]

\* the test of line 148 without the test of the pixel's norm
SeedStartsAnyColour(pb, sx, sy) == Lab(pb, sx, sy) = 0

\* passedBy.at<double>(x0, y0) == 0 && cv::norm(im.at<cv::Vec3i>(x0, y0)) > 0
SeedStarts(pb, sx, sy) ==
  Lab(pb, sx, sy) = 0 /\ RegionGrow_distance(Pix(sx, sy), Black) > 0

RECURSIVE ExpandSeeds(_)
ExpandSeeds(s) ==
  IF s = <<>> THEN <<>>
  ELSE <<Head(s)>> \o getNeighbour(Head(s)[1], Head(s)[2]) \o ExpandSeeds(Tail(s))

fixVars == <<stack, regionNum, var>>

\* ApplyRegionGrow, lines 134-141: the seed list is replaced by its expansion
RG_expand ==
  /\ mode = "adaptive" /\ pc = "expand"
  /\ seeds' = ExpandSeeds(seeds)
  /\ idx' = 1
  /\ pc' = "seeds"
  /\ touched' = {}
  /\ UNCHANGED <<imageVars, passedBy, currentRegion, iterations, item, x0, y0, x, y,
                 elems, varReads, fixVars, histVars>>

\* the range-for over seeds takes the next seed (lines 143-153)
RG_seed ==
  /\ mode = "adaptive" /\ pc = "seeds" /\ idx <= Len(seeds)
  /\ LET sx == seeds[idx][1]
         sy == seeds[idx][2]
     IN /\ x0' = sx /\ y0' = sy
        /\ touched' = {<<sx, sy>>}
        /\ IF SeedStarts(passedBy, sx, sy)
             THEN /\ currentRegion' = currentRegion + 1
                  /\ passedBy' = SetLab(passedBy, sx, sy, currentRegion + 1)
                  /\ item' = Stack_push(item, <<sx, sy>>)
                  /\ pc' = "grow"
                  /\ idx' = idx
             ELSE /\ idx' = idx + 1
                  /\ UNCHANGED <<currentRegion, passedBy, item, pc>>
  /\ UNCHANGED <<imageVars, iterations, x, y, seeds, elems, varReads, fixVars, histVars>>

\* one iteration of while (!stack.isEmpty()): pop, BFS(x, y), iterations++
RG_pop ==
  /\ mode = "adaptive" /\ pc = "grow" /\ ~ Stack_isEmpty(item)
  /\ LET p == Stack_pop(item)
         r == BFS(p.val[1], p.val[2], p.item)
     IN /\ x' = p.val[1] /\ y' = p.val[2]
        /\ passedBy' = r.passedBy
        /\ item' = r.item
        /\ elems' = r.elems
        /\ var' = r.var
        /\ regionNum' = Lab(passedBy, p.val[1], p.val[2])
        /\ varReads' = r.reads
        /\ touched' = r.touched
  /\ iterations' = iterations + 1
  /\ UNCHANGED <<imageVars, currentRegion, pc, x0, y0, seeds, idx, stack, histVars>>

\* continue in place of break: the loop goes on to the next seed
RG_breakContinue ==
  /\ mode = "adaptive" /\ pc = "grow" /\ Stack_isEmpty(item)
  /\ PassedAll(iterations, passedBy)
  /\ idx' = idx + 1
  /\ pc' = "seeds"
  /\ touched' = {}
  /\ UNCHANGED <<imageVars, passedBy, currentRegion, iterations, item, x0, y0, x, y,
                 seeds, elems, varReads, fixVars, histVars>>

\* the stack is empty and PassedAll() holds: break
RG_break ==
  /\ mode = "adaptive" /\ pc = "grow" /\ Stack_isEmpty(item)
  /\ PassedAll(iterations, passedBy)
  /\ pc' = "done"
  /\ touched' = {}
  /\ UNCHANGED <<imageVars, passedBy, currentRegion, iterations, item, x0, y0, x, y,
                 seeds, idx, elems, varReads, fixVars, histVars>>

\* the region is smaller than 8 * 8: reset_region, x0 and y0 take its result
RG_reclaim ==
  /\ mode = "adaptive" /\ pc = "grow" /\ Stack_isEmpty(item)
  /\ ~ PassedAll(iterations, passedBy)
  /\ TooSmall(CountOfLabel(passedBy, currentRegion))
  /\ LET r == reset_region(passedBy, currentRegion, x0, y0)
     IN /\ passedBy' = r.passedBy
        /\ currentRegion' = r.currentRegion
        /\ x0' = r.ret[1] /\ y0' = r.ret[2]
  /\ idx' = idx + 1
  /\ pc' = "seeds"
  /\ touched' = {}
  /\ UNCHANGED <<imageVars, iterations, item, x, y, seeds, elems, varReads, fixVars,
                 histVars>>

\* the region has 8 * 8 pixels or more and stays
RG_commit ==
  /\ mode = "adaptive" /\ pc = "grow" /\ Stack_isEmpty(item)
  /\ ~ PassedAll(iterations, passedBy)
  /\ ~ TooSmall(CountOfLabel(passedBy, currentRegion))
  /\ idx' = idx + 1
  /\ pc' = "seeds"
  /\ touched' = {}
  /\ UNCHANGED <<imageVars, passedBy, currentRegion, iterations, item, x0, y0, x, y,
                 seeds, elems, varReads, fixVars, histVars>>

\* the seed list is exhausted
RG_end ==
  /\ mode = "adaptive" /\ pc = "seeds" /\ idx > Len(seeds)
  /\ pc' = "done"
  /\ touched' = {}
  /\ UNCHANGED <<imageVars, passedBy, currentRegion, iterations, item, x0, y0, x, y,
                 seeds, idx, elems, varReads, fixVars, histVars>>

NextDir == RG_expand \/ RG_seed \/ RG_pop \/ RG_break \/ RG_reclaim \/ RG_commit \/ RG_end

----------------------------------------------------------------------------
(* Inputs of reg_grow_dir.cpp                                              *)

DirPalette == {Black, C30, C36}
DirThresholds == {6, 11}

Coords == (0 .. (h - 1)) \X (0 .. (w - 1))

\* BandH x BandW images: colour left in the columns below split, right in the
\* others, and corner in the last row of the others
BandImage(split, left, right, corner) ==
  [c \in 0 .. (BandH * BandW - 1) |->
     IF c % BandW < split THEN left
     ELSE IF c \div BandW = BandH - 1 THEN corner ELSE right]

\* the state after the constructor, at the entry of ApplyRegionGrow(seeds)
InitDirCommon ==
  /\ mode = "adaptive"
  /\ passedBy = [c \in 0 .. (h * w - 1) |-> 0]
  /\ currentRegion = 0 /\ iterations = 0
  /\ stack = initStack(StackCapacity)
  /\ item = <<>> /\ idx = 0 /\ elems = <<>> /\ varReads = <<>>
  /\ pc = "expand" /\ x0 = 0 /\ y0 = 0 /\ x = 0 /\ y = 0
  /\ regionNum = 0 /\ var = <<thresh, 1>>
  /\ touched = {} /\ hist = <<>> /\ expect = <<>>

\* a 10 x 10 image of one colour
UniformPalette == {Black, C30, C200}
UniformImage(colour) == [c \in 0 .. (10 * 10 - 1) |-> colour]

\* n x n images: a 3 x 3 island of colour inner in the middle, outer around it
IslandSides == {5, 9}
IslandRows(n) == ((n - 3) \div 2) .. ((n - 3) \div 2 + 2)
IslandCells(n) == {r * n + c : r \in IslandRows(n), c \in IslandRows(n)}
IslandImage(n, inner, outer) ==
  [c \in 0 .. (n * n - 1) |-> IF c \in IslandCells(n) THEN inner ELSE outer]

InitDirEntry ==
  /\ \/ /\ \E s \in Shapes : h = s[1] /\ w = s[2]
        /\ im \in [0 .. (h * w - 1) -> DirPalette]
        /\ seeds \in {<<>>} \cup {<<c>> : c \in Coords}
        /\ thresh \in DirThresholds
     \/ /\ h = BandH /\ w = BandW
        /\ \E split \in (BandW - 2) .. BandW, right \in {Black, C200},
                 corner \in {Black, C200} :
             im = BandImage(split, C30, right, corner)
        /\ \E sx \in {0, BandH - 1}, sy \in 0 .. (BandW - 1) : seeds = << <<sx, sy>> >>
        /\ thresh \in DirThresholds
     \/ /\ \E s \in Shapes : h = s[1] /\ w = s[2]
        /\ im \in [0 .. (h * w - 1) -> {Black, C30}]
        /\ \E c \in Coords, d \in Coords : seeds = <<c, d>>
        /\ thresh \in DirThresholds
     \/ /\ h = 10 /\ w = 10
        /\ \E colour \in UniformPalette : im = UniformImage(colour)
        /\ \E c \in Coords : seeds = <<c>>
        /\ thresh = 5
     \/ /\ \E n \in IslandSides :
             /\ h = n /\ w = n
             /\ \E outer \in {Black, C200} : im = IslandImage(n, C30, outer)
             /\ \E r \in IslandRows(n), c \in IslandRows(n) : seeds = << <<r, c>> >>
        /\ thresh = 5
  /\ InitDirCommon

\* a non-black pixel whose neighbours are all black: its region is itself
Lonely(c) ==
  /\ im[c] # Black
  /\ LET nb == getNeighbour(c \div w, c % w)
     IN \A n \in 1 .. Len(nb) : Pix(nb[n][1], nb[n][2]) = Black

\* the row C30, C30, C30, C36: with thresh 6 a region is the three C30 or
\* the C36 alone, and is reclaimed; a caller seed on (0,3), (0,0), (0,2),
\* (0,1) costs 4, 6, 7, 9 iterations with its neighbours
LateRow == [c \in 0 .. 3 |-> IF c < 3 THEN C30 ELSE C36]

\* A run that has gone on for long.  On an image with a lonely pixel and a
\* black one, every seed on the lonely pixel costs one iteration and leaves
\* no label (its region of one pixel is reclaimed), so after k such seeds
\* iterations = k and the label map is 0 again; on LateRow the costs 4, 6, 7
\* and 9 add up to every count from 6 on.  The seeds that are consumed are
\* left out of the list: seeds holds the expansion of the one caller seed
\* that remains.
InitDirLate ==
  /\ mode = "adaptive"
  /\ \/ /\ \E s \in Shapes : h = s[1] /\ w = s[2]
        /\ im \in [0 .. (h * w - 1) -> DirPalette]
        /\ \E c \in Cells : Lonely(c)
        /\ \E c \in Cells : im[c] = Black
        /\ thresh \in DirThresholds
     \/ /\ h = 1 /\ w = 4 /\ im = LateRow /\ thresh = 6
  /\ \E c \in Coords : seeds = ExpandSeeds(<<c>>)
  /\ iterations \in (max_iteration - LateSlack) .. max_iteration
  /\ passedBy = [c \in 0 .. (h * w - 1) |-> 0]
  /\ currentRegion = 0
  /\ stack = initStack(StackCapacity)
  /\ item = <<>> /\ idx = 1 /\ elems = <<>> /\ varReads = <<>>
  /\ pc = "seeds" /\ x0 = 0 /\ y0 = 0 /\ x = 0 /\ y = 0
  /\ regionNum = 0 /\ var = <<thresh, 1>>
  /\ touched = {} /\ hist = <<>> /\ expect = <<>>

InitDir == InitDirEntry \/ InitDirLate

SpecDir == InitDir /\ [][NextDir]_vars

Init == InitFix \/ InitDir
Next == NextFix \/ NextDir
Spec == Init /\ [][Next]_vars

----------------------------------------------------------------------------
(* The two stacks alone, driven by any sequence of pushes and pops of      *)
(* coordinate pairs.  hist is the list a LIFO discipline would hold.       *)

StackValues == (0 .. 1) \X (0 .. 1)

InitStack ==
  /\ mode \in {"array", "vector"}
  /\ \E c \in 1 .. MaxCap : stack = initStack(IF mode = "array" THEN c ELSE 1)
  /\ item = <<>>
  /\ h = 0 /\ w = 0 /\ im = <<>> /\ passedBy = <<>> /\ thresh = 0
  /\ currentRegion = 0 /\ iterations = 0
  /\ seeds = <<>> /\ idx = 0 /\ elems = <<>> /\ varReads = <<>>
  /\ pc = "idle" /\ x0 = 0 /\ y0 = 0 /\ x = 0 /\ y = 0
  /\ regionNum = 0 /\ var = <<0, 1>>
  /\ touched = {} /\ hist = <<>> /\ expect = <<>>

stackFrame == <<mode, h, w, im, thresh, passedBy, currentRegion, iterations, x0, y0,
                seeds, idx, regionNum, var, elems, varReads, touched>>

\* push(&stack, v[1], v[2])
Array_push ==
  /\ mode = "array" /\ Len(hist) < MaxDepth
  /\ \E v \in StackValues :
       /\ stack' = push(stack, v[1], v[2])
       /\ hist' = Append(hist, v)
  /\ pc' = "pushed"
  /\ UNCHANGED <<stackFrame, item, x, y, expect>>

\* pop(&stack, &x, &y); on the empty stack it reports and leaves x, y alone
Array_pop ==
  /\ mode = "array"
  /\ LET p == pop(stack, x, y)
     IN stack' = p.stack /\ x' = p.x /\ y' = p.y
  /\ IF hist = <<>>
       THEN pc' = "underflow" /\ UNCHANGED <<hist, expect>>
       ELSE /\ pc' = "popped"
            /\ expect' = <<hist[Len(hist)]>>
            /\ hist' = SubSeq(hist, 1, Len(hist) - 1)
  /\ UNCHANGED <<stackFrame, item>>

\* stack.push(v)
Vector_push ==
  /\ mode = "vector" /\ Len(hist) < MaxDepth
  /\ \E v \in StackValues :
       /\ item' = Stack_push(item, v)
       /\ hist' = Append(hist, v)
  /\ pc' = "pushed"
  /\ UNCHANGED <<stackFrame, stack, x, y, expect>>

\* auto [x, y] = stack.pop(), called on a non-empty stack only
Vector_pop ==
  /\ mode = "vector" /\ ~ Stack_isEmpty(item)
  /\ LET p == Stack_pop(item)
     IN item' = p.item /\ x' = p.val[1] /\ y' = p.val[2]
  /\ pc' = "popped"
  /\ expect' = <<hist[Len(hist)]>>
  /\ hist' = SubSeq(hist, 1, Len(hist) - 1)
  /\ UNCHANGED <<stackFrame, stack>>

NextStack == Array_push \/ Array_pop \/ Vector_push \/ Vector_pop

SpecStack == InitStack /\ [][NextStack]_vars

----------------------------------------------------------------------------
(* Properties                                                              *)

Labels == {passedBy[c] : c \in Cells} \ {0}

Seed == x0 * w + y0

Adjacent(c, d) ==
  /\ c # d
  /\ (c \div w) - (d \div w) \in {-1, 0, 1}
  /\ (c % w) - (d % w) \in {-1, 0, 1}

\* C1: exhaustive mode: when the labeling pass is over every cell of passedBy
\* holds a non-zero label, so the labeled cells number width * height.
ExhaustiveComplete ==
  (mode = "fixed" /\ pc = "done") =>
    /\ \A c \in Cells : passedBy[c] # 0
    /\ CountNonZero(passedBy) = h * w

ExhaustiveCompleteWitness ==
  /\ mode = "fixed" /\ pc = "done"
  /\ h >= 2 /\ w >= 2 /\ currentRegion >= 2

\* C2 as claimed: fixed mode: every pixel admitted to the region being grown is
\* at a colour distance below thresh from the pixel where the region started.
AdmittedNearSeed ==
  (mode = "fixed" /\ pc = "bfs") =>
    \A c \in Cells :
      (passedBy[c] = currentRegion /\ c # Seed) =>
        SqrtLess(distance(im[c], im[Seed]), <<thresh, 1>>)

\* C2 amended: fixed mode: every pixel admitted by a step of BFS is one of the
\* eight neighbours of the pixel popped in that step and at a colour distance
\* below thresh from that popped pixel.
AdmittedNearPopped ==
  [][(mode = "fixed" /\ pc = "bfs") =>
       \A c \in Cells :
         (passedBy[c] = 0 /\ passedBy'[c] # 0) =>
           /\ passedBy'[c] = currentRegion
           /\ Adjacent(c, x' * w + y')
           /\ SqrtLess(distance(im[c], im[x' * w + y']), <<thresh, 1>>)]_vars

\* a pixel of the growing region that is thresh or more away from the seed
AdmittedNearPoppedWitness ==
  /\ mode = "fixed" /\ pc = "bfs" /\ thresh > 0
  /\ \E c \in Cells :
       /\ passedBy[c] = currentRegion /\ c # Seed
       /\ ~ SqrtLess(distance(im[c], im[Seed]), <<thresh, 1>>)
       /\ \E d \in Cells : /\ Adjacent(c, d) /\ passedBy[d] = currentRegion
                           /\ SqrtLess(distance(im[c], im[d]), <<thresh, 1>>)

\* C3 as claimed: adaptive mode: every region id present in the final label
\* map labels at least 64 pixels, the last region grown included.
EveryFinalRegionLarge ==
  (mode = "adaptive" /\ pc = "done") =>
    \A l \in Labels : CountOfLabel(passedBy, l) >= MinRegion

\* C3 amended: adaptive mode: every region id present in the final label map
\* labels at least 64 pixels, except the region grown last when the run
\* stopped on PassedAll() (that region, id currentRegion, is kept at any size).
FinalRegionsLargeButLast ==
  (mode = "adaptive" /\ pc = "done") =>
    \A l \in Labels :
      (l # currentRegion \/ idx > Len(seeds)) => CountOfLabel(passedBy, l) >= MinRegion

FinalRegionsLargeButLastWitness ==
  /\ mode = "adaptive" /\ pc = "done"
  /\ currentRegion = 2
  /\ CountOfLabel(passedBy, 1) >= MinRegion
  /\ CountOfLabel(passedBy, 2) \in 1 .. (MinRegion - 1)

\* C4: adaptive mode: every value of var read by a comparison distance < var
\* is at least thresh.
VarFloor ==
  mode = "adaptive" =>
    \A i \in 1 .. Len(varReads) : ~ FracLess(varReads[i], <<thresh, 1>>)

\* a call of BFS that admitted two pixels whose mean brightness is below thresh
VarFloorWitness ==
  /\ mode = "adaptive" /\ pc = "grow"
  /\ Len(elems) >= 3 /\ Len(varReads) >= 2
  /\ FracLess(MeanOf(elems), <<thresh, 1>>)

\* C5: both modes, seeds in bounds: every coordinate at which a step reads or
\* writes im or passedBy, every seed of the expanded list and every
\* coordinate on the stack lies in [0, h) x [0, w).
BoundaryExclusion ==
  mode \in {"fixed", "adaptive"} =>
    /\ \A c \in touched : InGrid(c)
    /\ \A i \in 1 .. Len(seeds) : InGrid(seeds[i])
    /\ \A i \in 1 .. Len(item) : InGrid(item[i])
    /\ \A i \in 1 .. stack.size : InGrid(<<stack.x[i], stack.y[i]>>)

\* the corner (0, 0) was popped and its three neighbours were looked at
BoundaryExclusionWitness ==
  /\ mode = "adaptive" /\ pc = "grow"
  /\ h >= 2 /\ w >= 2 /\ x = 0 /\ y = 0 /\ iterations >= 1
  /\ touched = {<<0, 0>>, <<0, 1>>, <<1, 0>>, <<1, 1>>}

\* C6: exhaustive mode: at the end of the pass the labels present are exactly
\* 1..currentRegion, and a region is started with an id no cell holds yet.
ExhaustiveIdsDense ==
  /\ []((mode = "fixed" /\ pc = "done") => Labels = 1 .. currentRegion)
  /\ [][(mode = "fixed" /\ pc = "loop" /\ pc' = "bfs") =>
          /\ currentRegion' = currentRegion + 1
          /\ passedBy'[Seed] = currentRegion'
          /\ \A c \in Cells : passedBy[c] # currentRegion']_vars

ExhaustiveIdsDenseWitness ==
  /\ mode = "fixed" /\ pc = "done"
  /\ currentRegion >= 3 /\ h * w > currentRegion

\* C7: adaptive mode: a reclaimed region gives its id back (the counter is
\* decremented and the next region started takes the same id), so at every
\* point of the run, and at its end, the labels present are exactly
\* 1..currentRegion.
InteractiveIdsDense ==
  /\ [](mode = "adaptive" => Labels = 1 .. currentRegion)
  /\ [][(mode = "adaptive" /\ pc = "seeds" /\ pc' = "grow") =>
          /\ currentRegion' = currentRegion + 1
          /\ passedBy'[x0' * w + y0'] = currentRegion']_vars
  /\ [][(mode = "adaptive" /\ pc = "grow" /\ pc' = "seeds"
           /\ passedBy' # passedBy) => currentRegion' = currentRegion - 1]_vars

\* no pixel is black, so the first seed started region 1; a later seed is
\* growing region 1 again, so the first one was reclaimed
InteractiveIdsDenseWitness ==
  /\ mode = "adaptive" /\ pc = "grow"
  /\ idx > 1 /\ currentRegion = 1
  /\ \A c \in Cells : im[c] # Black

IsReset == mode = "adaptive" /\ pc = "grow" /\ pc' = "seeds" /\ x0' = x0 - 1 /\ y0' = y0 - 1

\* C8: a labeled cell changes only by reclamation: in exhaustive mode never,
\* in adaptive mode only in the step of reset_region, which clears exactly
\* the cells labeled currentRegion and leaves every other cell as it was.
LabeledCellsFrame ==
  [][(mode \in {"fixed", "adaptive"}) =>
       /\ \A c \in Cells :
            (passedBy[c] # 0 /\ passedBy'[c] # passedBy[c]) =>
              (IsReset /\ passedBy[c] = currentRegion /\ passedBy'[c] = 0)
       /\ IsReset =>
            \A c \in Cells :
              passedBy'[c] = IF passedBy[c] = currentRegion THEN 0 ELSE passedBy[c]]_vars

\* region 2 has just been reclaimed next to region 1, which stays
LabeledCellsFrameWitness ==
  /\ mode = "adaptive" /\ pc = "seeds" /\ idx > 1 /\ idx <= Len(seeds) + 1
  /\ x0 = seeds[idx - 1][1] - 1 /\ y0 = seeds[idx - 1][2] - 1
  /\ currentRegion = 1
  /\ CountOfLabel(passedBy, 1) >= MinRegion
  /\ CountNonZero(passedBy) < h * w
  /\ \E c \in Cells : passedBy[c] = 0 /\ im[c] # Black

\* C9: both stacks are LIFO: the pairs they hold are the pairs pushed and not
\* yet popped, in push order, and pop returns the latest of them, also
\* after the array-backed stack has doubled its capacity.
StackLIFO ==
  /\ mode = "array" => Live(stack) = hist
  /\ mode = "vector" => item = hist
  /\ (mode \in {"array", "vector"} /\ pc = "popped") => <<x, y>> = expect[1]

\* a pop after the array has been doubled
StackLIFOWitness ==
  /\ mode = "array" /\ pc = "popped"
  /\ stack.capacity >= 2 * MaxCap
  /\ Len(hist) >= 2 /\ <<x, y>> # hist[Len(hist)]

SameColourBlock(c) == {d \in Cells : im[d] = im[c]}

\* the cells of block reachable from the cells of seen by steps to adjacent cells
RECURSIVE Reach(_, _)
Reach(seen, block) ==
  LET more == {d \in block \ seen : \E c \in seen : Adjacent(c, d)}
  IN IF more = {} THEN seen ELSE Reach(seen \cup more, block)

\* the image is made of 8-connected blocks of one colour each, at pairwise
\* colour distances of thresh or more
BlockImage ==
  /\ thresh > 0
  /\ \A c, d \in Cells :
       im[c] # im[d] => ~ SqrtLess(distance(im[c], im[d]), <<thresh, 1>>)
  /\ \A c \in Cells : Reach({c}, SameColourBlock(c)) = SameColourBlock(c)

\* C10: exhaustive mode on an image of such blocks: one region per block, each
\* covering exactly its block; one region for a uniform image, two for the
\* 4 x 4 image of two halves at distance 200 with threshold 10.
BlocksBecomeRegions ==
  (mode = "fixed" /\ pc = "done" /\ BlockImage) =>
    /\ \A c, d \in Cells : (passedBy[c] = passedBy[d]) <=> (im[c] = im[d])
    /\ currentRegion = Cardinality({im[c] : c \in Cells})
    /\ (h = 4 /\ w = 4 /\ thresh = 10 /\ im[0] = Black /\ im[15] = C200)
         => currentRegion = 2

BlocksBecomeRegionsWitness ==
  /\ mode = "fixed" /\ pc = "done" /\ BlockImage
  /\ h = 4 /\ w = 4 /\ thresh = 10
  /\ im[0] = Black /\ im[15] = C200
  /\ \A c \in Cells : passedBy[c] = IF c < 8 THEN 1 ELSE 2

----------------------------------------------------------------------------
(* The scenarios of reg_grow_dir.cpp                                       *)

IsUniform ==
  /\ mode = "adaptive" /\ h = 10 /\ w = 10 /\ thresh = 5
  /\ \E colour \in UniformPalette : im = UniformImage(colour)

\* C11 as it is worded, for any colour of the image: the run over a 10 x 10
\* image of one colour with threshold 5 and one seed ends with region 1 on all
\* 100 pixels.
UniformOneRegionAnyColour ==
  (IsUniform /\ pc = "done") =>
    currentRegion = 1 /\ \A c \in Cells : passedBy[c] = 1

\* C11: a 10 x 10 image of one colour that is not black, threshold 5, one seed
\* at any position: the run ends with exactly one region, of id 1, on all 100
\* pixels, and no step of the run is a reset_region.
UniformOneRegion ==
  /\ [](( IsUniform /\ im[0] # Black /\ pc = "done") =>
          /\ currentRegion = 1
          /\ Cardinality({c \in Cells : passedBy[c] = 1}) = 100)
  /\ [][(IsUniform /\ im[0] # Black) => ~ IsReset]_vars

UniformOneRegionWitness ==
  /\ IsUniform /\ im[0] = C200 /\ pc = "done"
  /\ seeds[1] = <<9, 9>>
  /\ iterations = 100
  /\ \A c \in Cells : passedBy[c] = 1

IsIsland ==
  /\ mode = "adaptive" /\ h = w /\ h \in IslandSides /\ thresh = 5
  /\ \E outer \in {Black, C200} : im = IslandImage(h, C30, outer)

\* the cells of the region that is growing, and whether it grows from the island
Growing == {c \in Cells : passedBy[c] = currentRegion}
FromIsland == pc = "grow" /\ Seed \in IslandCells(h)

----------------------------------------------------------------------------
(* Termination and the discipline of the stack                             *)

\* the pairs a step has pushed: what Live(stack') holds above what the step
\* has left of Live(stack)
Kept == IF iterations' # iterations
          THEN SubSeq(Live(stack), 1, stack.size - 1) ELSE Live(stack)
Pushed == SubSeq(Live(stack'), Len(Kept) + 1, stack'.size)
NewlyLabeled == {c \in Cells : passedBy[c] = 0 /\ passedBy'[c] # 0}

\* C13: exhaustive mode ends, and every cell is visited once: a step pushes
\* exactly the cells it labels, each once, no label is ever put back to 0 or
\* set twice, the pops so far and the pairs on the stack are together the
\* labeled cells, so each cell is pushed once and popped once; at the end
\* iterations = w * h, and the stack never holds more than w * h pairs.
ExhaustiveVisitsOnce ==
  /\ <>(pc = "done")
  /\ [][/\ SubSeq(Live(stack'), 1, Len(Kept)) = Kept
        /\ Len(Pushed) = Cardinality(NewlyLabeled)
        /\ {p[1] * w + p[2] : p \in {Pushed[i] : i \in 1 .. Len(Pushed)}} = NewlyLabeled
        /\ \A c \in Cells : passedBy[c] # 0 => passedBy'[c] = passedBy[c]
        /\ iterations' \in {iterations, iterations + 1}
        /\ iterations' # iterations => stack.size > 0]_vars
  /\ [](iterations + stack.size = CountNonZero(passedBy))
  /\ [](stack.size <= w * h)
  /\ [](pc = "done" => iterations = w * h /\ stack.size = 0)

ExhaustiveVisitsOnceWitness ==
  /\ mode = "fixed" /\ pc = "done" /\ h = 2 /\ w = 2
  /\ iterations = w * h /\ currentRegion = 1
  /\ stack.size = 0 /\ Len(stack.x) = 3

\* what is left to do for the region that is growing: a pop takes one pair
\* from the stack, an admission labels one cell and pushes one pair
Measure == 2 * Cardinality({c \in Cells : passedBy[c] = 0}) + Len(item)

\* what is left of the run: the seeds still to come, each worth more than the
\* growth of a region can cost, then what is left of the region that grows
PerSeed == 2 * h * w + 3
Rank ==
  CASE pc = "expand" -> (9 * Len(seeds) + 2) * PerSeed
    [] pc = "seeds" -> (Len(seeds) + 1 - idx) * PerSeed + PerSeed
    [] pc = "grow" -> (Len(seeds) + 1 - idx) * PerSeed + Measure + 1
    [] pc = "done" -> 0

\* C14: interactive mode ends for every image, threshold and seed list: until
\* the run is over a step can be taken (a pop while the stack holds a pair,
\* a step of the seed loop otherwise), and every step lowers Rank, a natural
\* number, so the run cannot go on for ever whatever is reclaimed and grown
\* again: every pop lowers Measure, and the end of a region and a seed that
\* starts none move on to the next seed of a list that does not change.
InteractiveTerminates ==
  /\ [](\/ pc = "done"
        \/ pc = "grow" /\ ~ Stack_isEmpty(item)
        \/ ENABLED (RG_expand \/ RG_seed \/ RG_break \/ RG_reclaim \/ RG_commit \/ RG_end))
  /\ [](Rank >= 0)
  /\ [][Rank' < Rank]_vars
  /\ [][(pc = "grow" /\ pc' = "grow") => Measure' < Measure]_vars
  /\ [][(pc = "grow" /\ pc' = "seeds") => idx' = idx + 1]_vars
  /\ [][pc # "expand" => seeds' = seeds]_vars

InteractiveTerminatesWitness ==
  /\ mode = "adaptive" /\ pc = "done"
  /\ iterations > 2 * h * w /\ iterations < max_iteration - LateSlack
  /\ currentRegion = 0 /\ idx = Len(seeds) + 1

\* C15: interactive mode: when the stack of a region is empty and the
\* iterations are above the cap or every cell is labeled, the run is over: the
\* next state is the final one, with the label map, the counters and the place
\* in the seed list as they were, and nothing changes after it.
RunStopsOnPredicate ==
  /\ [][(/\ pc = "grow" /\ item = <<>>
         /\ \/ iterations > max_iteration
            \/ \A c \in Cells : passedBy[c] # 0) =>
          /\ pc' = "done"
          /\ UNCHANGED <<passedBy, currentRegion, iterations, idx, seeds, item>>]_vars
  /\ [][pc = "done" =>
          /\ pc' = "done"
          /\ UNCHANGED <<passedBy, currentRegion, iterations, idx, seeds, item>>]_vars

\* the cap has ended the run on a label map with holes, before a seed that
\* would have started a region
RunStopsOnPredicateWitness ==
  /\ mode = "adaptive" /\ pc = "done"
  /\ iterations > max_iteration
  /\ currentRegion = 1
  /\ \E i \in (idx + 1) .. Len(seeds) : SeedStarts(passedBy, seeds[i][1], seeds[i][2])

\* the last step was a reset_region: x0, y0 hold what it returned for the
\* seed before seeds[idx]
JustReclaimed ==
  /\ mode = "adaptive" /\ pc = "seeds" /\ idx > 1
  /\ x0 = seeds[idx - 1][1] - 1 /\ y0 = seeds[idx - 1][2] - 1

\* C16: interactive mode: after the region of the seed (x0, y0) is reclaimed,
\* the next seed the run examines, and so its next growth attempt, is the
\* coordinate (x0 - 1, y0 - 1) that reset_region returned, whether the seed
\* came from the caller or is an appended neighbour.
ScanContinuesShifted ==
  [][(JustReclaimed /\ idx <= Len(seeds)) => (x0' = x0 /\ y0' = y0)]_vars

----------------------------------------------------------------------------
(* The running threshold of reg_grow_dir.cpp                               *)

FracEq(a, b) == a[1] * b[2] = b[1] * a[2]

\* the mean brightness of the pixels of a non-empty set of cells, and of a
\* pixel together with the pixels of a set of cells
RECURSIVE BrightnessSum(_)
BrightnessSum(S) ==
  IF S = {} THEN <<0, 1>>
  ELSE LET c == CHOOSE d \in S : TRUE
       IN FracAdd(Brightness(im[c]), BrightnessSum(S \ {c}))
MeanBrightness(S) ==
  LET t == BrightnessSum(S) IN Frac(t[1], t[2] * Cardinality(S))
MeanWith(p, S) ==
  LET t == FracAdd(Brightness(p), BrightnessSum(S))
  IN Frac(t[1], t[2] * (Cardinality(S) + 1))

\* C17 as it is worded: after an admission the running threshold is the larger
\* of thresh and the mean brightness of the pixels admitted to the growing
\* region so far, in all its pops (with the seed of the region counted among
\* them, or without it).
AccumulatorPerRegion ==
  (mode = "adaptive" /\ pc = "grow" /\ Len(elems) >= 2) =>
    \/ FracEq(var, FracMax(MeanBrightness(Growing), <<thresh, 1>>))
    \/ FracEq(var, FracMax(MeanBrightness(Growing \ {Seed}), <<thresh, 1>>))

\* C17: the accumulator lives for one call of BFS, the scan of the neighbours
\* of one popped pixel: the scan starts at thresh, and after its admissions
\* the running threshold is the larger of thresh and the mean brightness of
\* the popped pixel and the pixels this scan has admitted; a scan that admits
\* nothing leaves it at thresh.
AccumulatorPerPop ==
  [][(mode = "adaptive" /\ pc = "grow" /\ iterations' # iterations) =>
       IF NewlyLabeled = {}
         THEN var' = <<thresh, 1>>
         ELSE FracEq(var', FracMax(MeanWith(Pix(x', y'), NewlyLabeled), <<thresh, 1>>))]_vars

\* a later pop of a region has admitted a pixel, and the running threshold is
\* not the one of the whole region
AccumulatorPerPopWitness ==
  /\ mode = "adaptive" /\ pc = "grow" /\ Len(elems) >= 2
  /\ Cardinality(Growing) > Len(elems)
  /\ ~ FracEq(var, FracMax(MeanBrightness(Growing), <<thresh, 1>>))
  /\ ~ FracEq(var, FracMax(MeanBrightness(Growing \ {Seed}), <<thresh, 1>>))

----------------------------------------------------------------------------
(* The early exit of RegionGrow::BFS                                       *)

\* C18: adaptive mode: a step taken while the iterations are above the cap or
\* every cell is labeled labels no cell and pushes nothing: the label map
\* stays and the stack only loses the popped pair; so once the iterations
\* are above the cap the number of labeled cells never goes up.
EarlyExit ==
  /\ [][(/\ mode = "adaptive"
         /\ \/ iterations > max_iteration
            \/ \A c \in Cells : passedBy[c] # 0) =>
          /\ passedBy' = passedBy
          /\ Len(item') <= Len(item)
          /\ item' = SubSeq(item, 1, Len(item'))]_vars
  /\ [][(mode = "adaptive" /\ iterations > max_iteration) =>
          CountNonZero(passedBy') <= CountNonZero(passedBy)]_vars

\* the scan of the popped pixel (x, y) has run above the cap and has left a
\* neighbour that is unlabeled and within thresh of it
EarlyExitWitness ==
  /\ mode = "adaptive" /\ pc = "grow"
  /\ iterations - 1 > max_iteration
  /\ LET nb == getNeighbour(x, y)
     IN \E n \in 1 .. Len(nb) :
          /\ Lab(passedBy, nb[n][1], nb[n][2]) = 0
          /\ SqrtLess(RegionGrow_distance(Pix(x, y), Pix(nb[n][1], nb[n][2])),
                      <<thresh, 1>>)

----------------------------------------------------------------------------
(* The seed loop of reg_grow_dir.cpp                                       *)

\* C19: interactive mode: the step that examines a seed whose cell is labeled
\* or whose pixel is black leaves currentRegion, the label map, the stack and
\* iterations as they are and moves on to the next seed; from a seed that is
\* unlabeled and not black it starts the region currentRegion + 1 on that
\* cell alone, and currentRegion goes up in no other step.
SeedFrame ==
  /\ [][(mode = "adaptive" /\ pc = "seeds" /\ idx <= Len(seeds)) =>
          LET c == seeds[idx][1] * w + seeds[idx][2]
          IN IF passedBy[c] # 0 \/ im[c] = <<0, 0, 0>>
               THEN /\ UNCHANGED <<currentRegion, passedBy, item, iterations>>
                    /\ pc' = "seeds" /\ idx' = idx + 1
               ELSE /\ currentRegion' = currentRegion + 1
                    /\ passedBy' = [passedBy EXCEPT ![c] = currentRegion + 1]
                    /\ item' = <<seeds[idx]>>
                    /\ iterations' = iterations
                    /\ pc' = "grow"]_vars
  /\ [][(mode = "adaptive" /\ currentRegion' > currentRegion) =>
          /\ pc = "seeds" /\ idx <= Len(seeds)
          /\ passedBy[seeds[idx][1] * w + seeds[idx][2]] = 0
          /\ im[seeds[idx][1] * w + seeds[idx][2]] # <<0, 0, 0>>]_vars

\* one region has been grown in the whole run, and the two seeds examined
\* last both lie in it: a labeled seed has been passed over
SeedFrameWitness ==
  /\ mode = "adaptive" /\ pc = "seeds" /\ idx >= 3
  /\ currentRegion = 1 /\ iterations = CountOfLabel(passedBy, 1)
  /\ passedBy[seeds[idx - 1][1] * w + seeds[idx - 1][2]] = 1
  /\ passedBy[seeds[idx - 2][1] * w + seeds[idx - 2][2]] = 1
  /\ x0 = seeds[idx - 1][1] /\ y0 = seeds[idx - 1][2]

\* the pairs on the stack of the mode that runs
Frontier == IF mode = "fixed" THEN Live(stack) ELSE item

\* C20: in both modes the stack is empty whenever the program is between two
\* regions (before a seed is examined, and so when a new region's seed is
\* labeled and pushed, after which it holds that seed alone), every pair on
\* it is a cell of the region that is growing, and a pop is taken on a stack
\* that holds a pair.
FrontierDrained ==
  /\ []((mode = "fixed" /\ pc \in {"loop", "done"}) => isEmpty(stack))
  /\ []((mode = "adaptive" /\ pc \in {"expand", "seeds", "done"}) => item = <<>>)
  /\ [](mode \in {"fixed", "adaptive"} =>
          \A i \in 1 .. Len(Frontier) :
            Lab(passedBy, Frontier[i][1], Frontier[i][2]) = currentRegion)
  /\ [][(mode \in {"fixed", "adaptive"} /\ currentRegion' > currentRegion) =>
          /\ Frontier = <<>>
          /\ Frontier' = << <<x0', y0'>> >>
          /\ Lab(passedBy', x0', y0') = currentRegion']_vars
  /\ [][(mode \in {"fixed", "adaptive"} /\ iterations' # iterations) =>
          /\ Frontier # <<>>
          /\ x' = Frontier[Len(Frontier)][1] /\ y' = Frontier[Len(Frontier)][2]]_vars

\* the second region of a run is growing, with two of its cells on the stack
FrontierDrainedWitness ==
  /\ mode = "fixed" /\ pc = "bfs" /\ currentRegion = 2
  /\ Len(Frontier) = 2
  /\ \E c \in Cells : passedBy[c] = 1

----------------------------------------------------------------------------
(* The expansion of the seed list                                          *)

\* the in-bounds cells around (sx, sy), and a set of coordinates as the list
\* that goes through it row by row, each row from left to right
Around(sx, sy) ==
  {c \in Coords : c # <<sx, sy>> /\ c[1] - sx \in {-1, 0, 1} /\ c[2] - sy \in {-1, 0, 1}}
RECURSIVE RowMajor(_)
RowMajor(S) ==
  IF S = {} THEN <<>>
  ELSE LET m == CHOOSE c \in S :
                  \A d \in S : c[1] < d[1] \/ (c[1] = d[1] /\ c[2] <= d[2])
       IN <<m>> \o RowMajor(S \ {m})
RECURSIVE Expanded(_)
Expanded(s) ==
  IF s = <<>> THEN <<>>
  ELSE <<s[1]>> \o RowMajor(Around(s[1][1], s[1][2])) \o Expanded(Tail(s))

\* C21 as it is worded, in what it says of the seeds that are examined: when
\* the run is over every seed of the expanded list has been examined (the
\* seeds before seeds[idx], and seeds[idx] too when the run stops in its
\* region).
ExpandedAllExamined ==
  (mode = "adaptive" /\ pc = "done") => idx >= Len(seeds)

\* C21: interactive mode: the first step replaces the caller's list by the
\* list that holds, for each caller seed in order, the seed and then its
\* in-bounds neighbours row by row; no label is written before it; the seeds
\* of the expanded list are examined one by one in its order, and all of them
\* are examined unless the run stops before on PassedAll().
SeedsExpanded ==
  /\ [](pc = "expand" => currentRegion = 0 /\ \A c \in Cells : passedBy[c] = 0)
  /\ [][pc = "expand" =>
          /\ seeds' = Expanded(seeds)
          /\ pc' = "seeds" /\ idx' = 1
          /\ UNCHANGED <<passedBy, currentRegion, iterations, item>>]_vars
  /\ [][(mode = "adaptive" /\ pc # "expand") =>
          /\ seeds' = seeds
          /\ idx' \in {idx, idx + 1}
          /\ (pc = "seeds" /\ idx <= Len(seeds)) =>
               (x0' = seeds[idx][1] /\ y0' = seeds[idx][2])
          /\ (pc = "seeds" /\ idx > Len(seeds)) => pc' = "done"]_vars
  /\ []((mode = "adaptive" /\ pc = "done") =>
          \/ idx = Len(seeds) + 1
          \/ iterations > max_iteration
          \/ \A c \in Cells : passedBy[c] # 0)

\* two caller seeds in two corners of a 2 x 2 image: 1 + 3 and 1 + 3 seeds,
\* all examined
SeedsExpandedWitness ==
  /\ mode = "adaptive" /\ pc = "done" /\ h = 2 /\ w = 2
  /\ seeds = << <<1, 1>>, <<0, 0>>, <<0, 1>>, <<1, 0>>,
                <<0, 1>>, <<0, 0>>, <<1, 0>>, <<1, 1>> >>
  /\ idx = Len(seeds) + 1

----------------------------------------------------------------------------
(* The regions of reg_grow.cpp as connected components                     *)

\* two adjacent cells whose colours are at a distance less than thresh
Linked(c, d) == Adjacent(c, d) /\ SqrtLess(distance(im[c], im[d]), <<thresh, 1>>)

\* the cells joined to the cells of seen by a path of linked cells
RECURSIVE Component(_)
Component(seen) ==
  LET more == {d \in Cells \ seen : \E c \in seen : Linked(c, d)}
  IN IF more = {} THEN seen ELSE Component(seen \cup more)

\* C22: exhaustive mode: when the pass is over, two cells have the same label
\* exactly when a path of adjacent cells, each at a colour distance less than
\* thresh from the next, joins them; so two adjacent cells at a distance less
\* than thresh have the same label.
RegionsAreComponents ==
  (mode = "fixed" /\ pc = "done") =>
    /\ \A c, d \in Cells : (passedBy[c] = passedBy[d]) <=> (d \in Component({c}))
    /\ \A c, d \in Cells : Linked(c, d) => passedBy[c] = passedBy[d]

\* two regions, one of them with two cells that are not linked to each other
\* and are joined through a third
RegionsAreComponentsWitness ==
  /\ mode = "fixed" /\ pc = "done" /\ currentRegion = 2
  /\ \E c, d \in Cells :
       /\ c # d /\ passedBy[c] = passedBy[d]
       /\ ~ SqrtLess(distance(im[c], im[d]), <<thresh, 1>>)
       /\ \E e \in Cells : Linked(c, e) /\ Linked(e, d)

====
